---- MODULE Spec2Model ----
(***************************************************************************)
(* Model of pkg/kubelet/cri/remote/remote_image.go: the gRPC client of the *)
(* CRI image service.  NewRemoteImageService dials the backend and probes  *)
(* it with ImageFsInfo; the five operations each open a cancellation       *)
(* scope, issue one RPC on the shared channel and map the response.        *)
(*                                                                         *)
(* Pointers are records with an isNil field; reading a field through a nil *)
(* pointer is a Go run-time panic, which unwinds the call (running its     *)
(* deferred cancel) and reaches the caller as a panic instead of a return. *)
(* Request fields that the adapters only forward (filter, verbose, auth,   *)
(* sandbox config) and the optional tracing interceptors are not modelled. *)
(***************************************************************************)
EXTENDS Integers, Sequences, FiniteSets, Bags, TLC

\* ---- bounds -------------------------------------------------------------
MaxCalls == 2
MaxTimeout == 2

Timeouts == 1..MaxTimeout

Endpoints == {"unix:///run/a.sock", "unix:///run/b.sock"}

\* ---- values -------------------------------------------------------------
NilPtr == [isNil |-> TRUE]
NoErr == [kind |-> "nil"]

StatusErr(code) == [kind |-> "status", code |-> code]
DialErr == [kind |-> "dial"]
ResolveErr == [kind |-> "resolve"]

\* errors.New(fmt.Sprintf(msg, arg))
ErrorsNew(msg, arg) == [kind |-> "new", msg |-> msg, arg |-> arg]

\* fmt.Errorf(msg + ": %w", arg, cause); arg is "" when msg has no verb
Errorf(msg, arg, cause) == [kind |-> "wrap", msg |-> msg, arg |-> arg, cause |-> cause]

\* the text of err contains string s as a formatted argument
RECURSIVE Mentions(_, _)
Mentions(err, s) ==
    CASE err.kind = "new" -> err.arg = s
      [] err.kind = "wrap" -> err.arg = s \/ Mentions(err.cause, s)
      [] OTHER -> FALSE

\* errors.Unwrap chain of err contains cause
RECURSIVE HasCause(_, _)
HasCause(err, cause) ==
    \/ err = cause
    \/ err.kind = "wrap" /\ HasCause(err.cause, cause)

\* status.Code(err)
StatusCode(err) ==
    CASE err.kind = "nil" -> "OK"
      [] err.kind = "status" -> err.code
      [] OTHER -> "Unknown"

\* util.GetAddressAndDialer(endpoint): the transport address of an endpoint
AddrOf(endpoint) == IF endpoint = "unix:///run/a.sock" THEN "/run/a.sock" ELSE "/run/b.sock"

GetAddressAndDialer(endpoint, ok) ==
    IF ok THEN [addr |-> AddrOf(endpoint), err |-> NoErr]
          ELSE [addr |-> "", err |-> ResolveErr]

\* ---- cancellation scopes ------------------------------------------------
getContextWithTimeout(timeout) == [kind |-> "timeout", timeout |-> timeout]
getContextWithCancel == [kind |-> "cancel", timeout |-> 0]

\* ---- inputs and backend responses --------------------------------------
ImageSpecs == {NilPtr, [isNil |-> FALSE, Image |-> "busybox"]}

ImageRecords == {NilPtr,
                 [isNil |-> FALSE, Id |-> "sha256:abc", Size_ |-> 10],
                 [isNil |-> FALSE, Id |-> "sha256:abc", Size_ |-> 0],
                 [isNil |-> FALSE, Id |-> "", Size_ |-> 10]}

Rpc(resp, err) == [resp |-> resp, err |-> err]
NoRpc == Rpc(NilPtr, NoErr)

\* what imageClient.<op>(ctx, req) can return when the backend answers
BackendResults(op) ==
    {Rpc(NilPtr, StatusErr("Unavailable"))} \cup
    CASE op = "ListImages" ->
           {Rpc([isNil |-> FALSE, Images |-> l], NoErr) : l \in {<<>>, <<"sha256:abc">>}}
      [] op = "ImageStatus" ->
           {Rpc([isNil |-> FALSE, Image |-> r], NoErr) : r \in ImageRecords}
      [] op = "PullImage" ->
           {Rpc([isNil |-> FALSE, ImageRef |-> s], NoErr) : s \in {"", "sha256:abc"}}
      [] op = "RemoveImage" ->
           {Rpc([isNil |-> FALSE], NoErr)}
      [] op = "ImageFsInfo" ->
           {Rpc([isNil |-> FALSE, ImageFilesystems |-> l], NoErr) : l \in {<<>>, <<"/var/lib/images">>}}

\* what the handshake probe can return when the backend answers
ProbeResults ==
    {Rpc([isNil |-> FALSE, ImageFilesystems |-> <<"/var/lib/images">>], NoErr),
     Rpc(NilPtr, StatusErr("Unavailable")),
     Rpc(NilPtr, StatusErr("Unimplemented"))}

\* what the gRPC client returns when the context deadline passes first
DeadlineResult == Rpc(NilPtr, StatusErr("DeadlineExceeded"))

\* ---- results of a call ---------------------------------------------------
Return(val, err) == [kind |-> "return", val |-> val, err |-> err]
Panic == [kind |-> "panic", val |-> NilPtr, err |-> NoErr]
NoOut == [kind |-> "none", val |-> NilPtr, err |-> NoErr]

\* ---- the adapters, as functions of the arguments and the RPC result ------
\* a probe that rejects the backend on every error
validateServiceConnectionStrict(endpoint, rpc) ==
    IF rpc.err = NoErr THEN NoErr
    ELSE Errorf("CRI v1 image API is not implemented for endpoint", endpoint, rpc.err)

validateServiceConnection(endpoint, rpc) ==
    IF rpc.err = NoErr THEN NoErr
    ELSE IF StatusCode(rpc.err) = "Unimplemented"
         THEN Errorf("CRI v1 image API is not implemented for endpoint", endpoint, rpc.err)
         ELSE NoErr

listImagesV1(rpc) ==
    IF rpc.err # NoErr THEN Return(<<>>, rpc.err)
    ELSE Return(rpc.resp.Images, NoErr)

imageStatusV1(image, rpc) ==
    IF rpc.err # NoErr
    THEN IF image.isNil THEN Panic ELSE Return(NilPtr, rpc.err)
    ELSE IF ~rpc.resp.Image.isNil /\ (rpc.resp.Image.Id = "" \/ rpc.resp.Image.Size_ = 0)
         THEN IF image.isNil THEN Panic
              ELSE Return(NilPtr, ErrorsNew("Id or size of image is not set", image.Image))
         ELSE Return(rpc.resp, NoErr)

pullImageV1(image, rpc) ==
    IF rpc.err # NoErr
    THEN IF image.isNil THEN Panic ELSE Return("", rpc.err)
    ELSE IF rpc.resp.ImageRef = ""
         THEN IF image.isNil THEN Panic
              ELSE Return("", ErrorsNew("imageRef of image is not set", image.Image))
         ELSE Return(rpc.resp.ImageRef, NoErr)

removeImage(image, rpc) ==
    IF rpc.err # NoErr
    THEN IF image.isNil THEN Panic ELSE Return(NilPtr, rpc.err)
    ELSE Return(NilPtr, NoErr)

imageFsInfoV1(rpc) ==
    IF rpc.err # NoErr THEN Return(<<>>, rpc.err)
    ELSE Return(IF rpc.resp.isNil THEN <<>> ELSE rpc.resp.ImageFilesystems, NoErr)

Adapter(op, image, rpc) ==
    CASE op = "ListImages" -> listImagesV1(rpc)
      [] op = "ImageStatus" -> imageStatusV1(image, rpc)
      [] op = "PullImage" -> pullImageV1(image, rpc)
      [] op = "RemoveImage" -> removeImage(image, rpc)
      [] op = "ImageFsInfo" -> imageFsInfoV1(rpc)

\* every operation bounded by the handle's timeout
ScopeOfAllBounded(op, timeout) == getContextWithTimeout(timeout)

\* the scope each operation opens before its RPC
ScopeOf(op, timeout) ==
    CASE op = "ListImages" -> getContextWithTimeout(timeout)
      [] op = "ImageStatus" -> getContextWithTimeout(timeout)
      [] op = "PullImage" -> getContextWithCancel
      [] op = "RemoveImage" -> getContextWithTimeout(timeout)
      [] op = "ImageFsInfo" -> getContextWithCancel

\* an operation that rewrites the handle's timeout
receiverAfterCallReset(r) == [r EXCEPT !.timeout = 0]

\* the receiver after an operation has run: the methods only read r
receiverAfterCall(r) == r

\* a dial failure wrapped into a new error that names the address
dialFailureWrapped(addr, err) ==
    [handle |-> "nil", err |-> Errorf("connect remote image service", addr, err)]

\* lines 76-79: what NewRemoteImageService returns when the dial fails
dialFailure(addr, err) == [handle |-> "nil", err |-> err]

\* the channel after the probe has rejected the backend (lines 83-85)
connAfterReject(c) == c

\* ---- state ---------------------------------------------------------------
VARIABLES
    ctor,     \* NewRemoteImageService: position, arguments and collaborators' answers
    service,  \* the remoteImageService struct allocated at line 81, or NilPtr
    conn,     \* the grpc.ClientConn: "none", "open" or "closed"
    ret,      \* what NewRemoteImageService returned: [handle, err]
    klog,     \* klog.ErrorS entries written by NewRemoteImageService
    scopes,   \* bag of the cancellation scopes that are open (not yet cancelled)
    calls     \* bag of the callers' operation calls: in flight, or returned

vars == <<ctor, service, conn, ret, klog, scopes, calls>>

\* a call that has issued its RPC
InFlight(op, image) ==
    [st |-> "inflight", op |-> op, image |-> image, elapsed |-> 0,
     rpc |-> NoRpc, cause |-> "none", out |-> NoOut]

One(x) == SetToBag({x})

Scope(owner, ctx) == [owner |-> owner, kind |-> ctx.kind, timeout |-> ctx.timeout]

Init ==
    /\ ctor = [pc |-> "start", endpoint |-> "", connectionTimeout |-> 0,
               resolveErr |-> NoErr, dialErr |-> NoErr, rpc |-> NoRpc,
               cause |-> "none", elapsed |-> 0]
    /\ service = NilPtr
    /\ conn = "none"
    /\ ret = [handle |-> "nil", err |-> NoErr]
    /\ klog = {}
    /\ scopes = EmptyBag
    /\ calls = EmptyBag

\* ---- NewRemoteImageService ----------------------------------------------
\* lines 48-100: resolve, dial, allocate the service and issue the probe;
\* returns early when resolution or the dial fails
NewRemoteImageService(endpoint, connectionTimeout, resolveOk, dialOk) ==
    /\ ctor.pc = "start"
    /\ LET r == GetAddressAndDialer(endpoint, resolveOk)
           args == [ctor EXCEPT !.endpoint = endpoint,
                                !.connectionTimeout = connectionTimeout]
       IN IF r.err # NoErr
          THEN /\ ctor' = [args EXCEPT !.pc = "returned", !.resolveErr = r.err]
               /\ ret' = [handle |-> "nil", err |-> r.err]
               /\ UNCHANGED <<service, conn, klog, scopes>>
          ELSE IF ~dialOk
          THEN /\ ctor' = [args EXCEPT !.pc = "returned", !.dialErr = DialErr]
               /\ klog' = klog \cup {[msg |-> "Connect remote image service failed",
                                      address |-> r.addr, err |-> DialErr]}
               /\ ret' = dialFailure(r.addr, DialErr)
               /\ UNCHANGED <<service, conn, scopes>>
          ELSE /\ ctor' = [args EXCEPT !.pc = "probing"]
               /\ conn' = "open"
               /\ service' = [isNil |-> FALSE, timeout |-> connectionTimeout,
                              imageClient |-> [isNil |-> FALSE, conn |-> r.addr]]
               /\ scopes' = scopes (+) One(Scope("dial", getContextWithTimeout(connectionTimeout)))
                                   (+) One(Scope("probe", getContextWithTimeout(connectionTimeout)))
               /\ UNCHANGED <<ret, klog>>
    /\ UNCHANGED calls

\* lines 100-108 and 83-88: the probe's RPC has returned; both deferred
\* cancels run and NewRemoteImageService returns
ProbeDone(rpc, cause) ==
    LET err == validateServiceConnection(ctor.endpoint, rpc)
    IN /\ ctor' = [ctor EXCEPT !.pc = "returned", !.rpc = rpc, !.cause = cause, !.elapsed = 0]
       /\ scopes' = scopes (-) One(Scope("probe", getContextWithTimeout(service.timeout)))
                           (-) One(Scope("dial", getContextWithTimeout(ctor.connectionTimeout)))
       /\ IF err # NoErr
          THEN /\ ret' = [handle |-> "nil", err |-> Errorf("validate service connection", "", err)]
               /\ conn' = connAfterReject(conn)
          ELSE /\ ret' = [handle |-> "service", err |-> NoErr]
               /\ conn' = conn
       /\ UNCHANGED <<service, klog, calls>>

ProbeReturn ==
    /\ ctor.pc = "probing"
    /\ \E rpc \in ProbeResults : ProbeDone(rpc, "response")

ProbeDeadline ==
    /\ ctor.pc = "probing"
    /\ ctor.elapsed >= service.timeout
    /\ ProbeDone(DeadlineResult, "deadline")

\* ---- the operations -----------------------------------------------------
\* entry of an operation up to its RPC being in flight; the caller is a new
\* goroutine, or one whose previous call has returned
Begin(op, image) ==
    /\ ret.handle = "service"
    /\ \/ /\ BagCardinality(calls) < MaxCalls
          /\ calls' = calls (+) One(InFlight(op, image))
       \/ \E d \in BagToSet(calls) :
             /\ d.st = "done"
             /\ calls' = (calls (-) One(d)) (+) One(InFlight(op, image))
    /\ scopes' = scopes (+) One(Scope("call", ScopeOf(op, service.timeout)))
    /\ UNCHANGED <<ctor, service, conn, ret, klog>>

ListImages == Begin("ListImages", NilPtr)
ImageStatus(image) == Begin("ImageStatus", image)
PullImage(image) == Begin("PullImage", image)
RemoveImage(image) == Begin("RemoveImage", image)
ImageFsInfo == Begin("ImageFsInfo", NilPtr)

\* RemoveImage cancelling its scope on the success path only
deferCancelOnSuccess(c) ==
    IF c.op = "RemoveImage"
    THEN scopes
    ELSE scopes (-) One(Scope("call", ScopeOf(c.op, service.timeout)))

\* the open scopes after call c has run its deferred cancel
deferCancel(c) == scopes (-) One(Scope("call", ScopeOf(c.op, service.timeout)))

\* the RPC of call c has returned: map the result, run the deferred cancel
\* and return (or panic) to the caller
Finish(c, rpc, cause) ==
    /\ calls' = (calls (-) One(c)) (+)
                One([c EXCEPT !.st = "done", !.rpc = rpc, !.cause = cause, !.elapsed = 0,
                              !.out = Adapter(c.op, c.image, rpc)])
    /\ scopes' = deferCancel(c)
    /\ service' = receiverAfterCall(service)
    /\ UNCHANGED <<ctor, conn, ret, klog>>

RpcReturn(c) ==
    /\ BagIn(c, calls)
    /\ c.st = "inflight"
    /\ \E rpc \in BackendResults(c.op) : Finish(c, rpc, "response")

\* the deadline of the scope of call c has passed
Expired(c) ==
    LET ctx == ScopeOf(c.op, service.timeout)
    IN ctx.kind = "timeout" /\ c.elapsed >= ctx.timeout

RpcDeadline(c) ==
    /\ BagIn(c, calls)
    /\ c.st = "inflight"
    /\ Expired(c)
    /\ Finish(c, DeadlineResult, "deadline")

\* ---- time ---------------------------------------------------------------
\* elapsed time of an RPC, counted up to the handle's timeout
Bump(n) == IF n < service.timeout THEN n + 1 ELSE n

Aged(c) == IF c.st = "inflight" THEN [c EXCEPT !.elapsed = Bump(@)] ELSE c

Tick ==
    /\ ~service.isNil
    /\ \/ ctor.pc = "probing" /\ ctor.elapsed < service.timeout
       \/ \E c \in BagToSet(calls) : c.st = "inflight" /\ c.elapsed < service.timeout
    /\ ctor' = IF ctor.pc = "probing" THEN [ctor EXCEPT !.elapsed = Bump(@)] ELSE ctor
    /\ calls' = BagOfAll(Aged, calls)
    /\ UNCHANGED <<service, conn, ret, klog, scopes>>

Next ==
    \/ \E e \in Endpoints, t \in Timeouts, rok \in BOOLEAN, dok \in BOOLEAN :
          NewRemoteImageService(e, t, rok, dok)
    \/ ProbeReturn
    \/ ProbeDeadline
    \/ ListImages
    \/ \E i \in ImageSpecs : ImageStatus(i)
    \/ \E i \in ImageSpecs : PullImage(i)
    \/ \E i \in ImageSpecs : RemoveImage(i)
    \/ ImageFsInfo
    \/ \E c \in BagToSet(calls) : RpcReturn(c)
    \/ \E c \in BagToSet(calls) : RpcDeadline(c)
    \/ Tick

Spec == Init /\ [][Next]_vars

\* ---- properties ---------------------------------------------------------
Returned == {c \in BagToSet(calls) : c.st = "done"}
Flying == {c \in BagToSet(calls) : c.st = "inflight"}
FlyingCount == BagCardinality([c \in Flying |-> calls[c]])
BoundedOps == {"ListImages", "ImageStatus", "RemoveImage"}
UnboundedOps == {"PullImage", "ImageFsInfo"}
ProbeRejected == StatusCode(ctor.rpc.err) = "Unimplemented"
DialSucceeded == ctor.resolveErr = NoErr /\ ctor.dialErr = NoErr

\* C1: NewRemoteImageService returns a handle, and no error, exactly when
\* resolution and the dial succeed and the probe does not fail with
\* Unimplemented; a probe failing with Unimplemented gives no handle and an
\* error naming the endpoint; exactly one of handle and error is returned, and
\* a returned handle has its image client set.
C1_Construction ==
    ctor.pc = "returned" =>
        /\ (ret.handle = "service") <=> (DialSucceeded /\ ~ProbeRejected)
        /\ (ret.handle = "service") <=> (ret.err = NoErr)
        /\ (DialSucceeded /\ ProbeRejected) => Mentions(ret.err, ctor.endpoint)
        /\ (ret.handle = "service") => (~service.isNil /\ ~service.imageClient.isNil)

\* the probe was answered with Unimplemented and construction has returned
C1_Witness ==
    ctor.pc = "returned" /\ DialSucceeded /\ ProbeRejected /\ ret.handle = "nil"

\* C2: an ImageStatus call whose RPC succeeds returns a locally made error and
\* no response when the record is non-nil with an empty identifier or a zero
\* size, succeeds with a nil record when the record is nil, and otherwise
\* returns the backend's response unchanged with no error.
C2_ImageStatusContract ==
    \A c \in Returned :
        (c.op = "ImageStatus" /\ c.rpc.err = NoErr) =>
            LET rec == c.rpc.resp.Image
            IN IF rec.isNil
               THEN c.out.kind = "return" /\ c.out.err = NoErr /\ c.out.val = c.rpc.resp
               ELSE IF rec.Id = "" \/ rec.Size_ = 0
               THEN c.out.kind = "return" /\ c.out.err.kind = "new" /\ c.out.val.isNil
               ELSE c.out = Return(c.rpc.resp, NoErr)

\* C3: a PullImage call whose RPC succeeds with an empty reference fails with a
\* locally made error that contains the requested image and returns "";
\* otherwise it returns exactly the backend's reference and no error.
C3_PullImageContract ==
    \A c \in Returned :
        (c.op = "PullImage" /\ c.rpc.err = NoErr) =>
            IF c.rpc.resp.ImageRef = ""
            THEN /\ c.out.kind = "return"
                 /\ c.out.val = ""
                 /\ c.out.err.kind = "new"
                 /\ ~c.image.isNil => Mentions(c.out.err, c.image.Image)
            ELSE c.out = Return(c.rpc.resp.ImageRef, NoErr)

\* C4: ListImages, RemoveImage and ImageFsInfo return the error of their RPC
\* unchanged (an error exactly when the RPC gave one), and on success
\* ListImages and ImageFsInfo return the backend's collection unmodified.
C4_PassThrough ==
    \A c \in Returned :
        (c.op \in {"ListImages", "RemoveImage", "ImageFsInfo"}) =>
            /\ c.out.kind = "return"
            /\ c.out.err = c.rpc.err
            /\ (c.op = "ListImages" /\ c.rpc.err = NoErr) => c.out.val = c.rpc.resp.Images
            /\ (c.op = "ImageFsInfo" /\ c.rpc.err = NoErr) =>
                   c.out.val = c.rpc.resp.ImageFilesystems

\* C5 as stated: a failed dial makes construction fail with an error that
\* includes the resolved address and has the dial error as its cause.
C5_DialErrorDescriptive ==
    (ctor.pc = "returned" /\ ctor.dialErr # NoErr) =>
        /\ ret.handle = "nil"
        /\ Mentions(ret.err, AddrOf(ctor.endpoint))
        /\ HasCause(ret.err, ctor.dialErr)

\* C5 as amended: a failed dial makes construction return the dial error
\* itself, unchanged, and no handle; the resolved address goes to the error
\* log entry only.
C5_DialErrorReturned ==
    (ctor.pc = "returned" /\ ctor.dialErr # NoErr) =>
        /\ ret.handle = "nil"
        /\ ret.err = ctor.dialErr
        /\ ~Mentions(ret.err, AddrOf(ctor.endpoint))
        /\ \E l \in klog : l.address = AddrOf(ctor.endpoint) /\ l.err = ctor.dialErr

\* construction has returned after a failed dial
C5_Witness ==
    ctor.pc = "returned" /\ ctor.resolveErr = NoErr /\ ctor.dialErr # NoErr

C7_ScopesReleased ==
    /\ BagCardinality(scopes) = FlyingCount + (IF ctor.pc = "probing" THEN 2 ELSE 0)
    /\ CopiesIn(Scope("probe", getContextWithTimeout(ctor.connectionTimeout)), scopes)
           = (IF ctor.pc = "probing" THEN 1 ELSE 0)
    /\ \A c \in Flying : BagIn(Scope("call", ScopeOf(c.op, service.timeout)), scopes)
    /\ Flying = {} /\ ctor.pc # "probing" => scopes = EmptyBag

\* calls have failed by error, by deadline and by panic, and no scope is open
C7_Witness ==
    /\ scopes = EmptyBag
    /\ \E c \in Returned : c.cause = "deadline"
    /\ \E c \in Returned : c.out.kind = "panic" \/ c.out.err.kind = "new"

\* at most one call differs between the calls before and after the step
OneCallChanged ==
    /\ BagCardinality(calls (-) calls') <= 1
    /\ BagCardinality(calls' (-) calls) <= 1

\* C8: once a handle is returned no step writes its fields or closes the
\* channel; a step other than the passage of time changes one call only, and
\* the RPC of every call in flight can return whatever the other calls do.
C8_HandleImmutable ==
    [][ret.handle = "service" =>
           /\ service' = service
           /\ conn' = conn
           /\ ret' = ret
           /\ Tick \/ OneCallChanged
           /\ \A c \in Flying : ENABLED RpcReturn(c)]_vars

\* one call is blocked in flight while another has failed
C8_Witness ==
    /\ \E c \in Flying : c.op = "PullImage"
    /\ \E c \in Returned : c.out.kind = "panic" \/ c.out.err # NoErr

\* C9: when construction fails after the dial succeeded, the channel that the
\* dial opened is no longer open; an open channel has a handle that owns it.
C9_ChannelClosedOnReject ==
    (ctor.pc = "returned" /\ ret.handle = "nil") => conn # "open"

\* C10: every ImageStatus, PullImage and RemoveImage call returns a result or
\* an error to its caller, whatever the image argument and the backend's answer.
C10_AlwaysReturns ==
    \A c \in Returned :
        c.op \in {"ImageStatus", "PullImage", "RemoveImage"} => c.out.kind = "return"

====
